---- MODULE Spec2Model ----
(***************************************************************************)
(* Model of homeassistant/components/hive/__init__.py: the component and   *)
(* config-entry entry points (async_setup, async_setup_entry,              *)
(* async_unload_entry), the refresh_system decorator and the HiveEntity    *)
(* base class.                                                             *)
(*                                                                         *)
(* Python values are modelled by what they are: a dict is a function whose *)
(* DOMAIN is its key set, d[k] on a missing key is a KeyError, d.get(k)    *)
(* on a missing key is None, an f-string is string concatenation.  A       *)
(* coroutine is split at the await where another task can run.             *)
(***************************************************************************)
EXTENDS Integers, Sequences, FiniteSets, TLC

\* ---------------------------------------------------------------- bounds
NumEntries == 2
MaxSetups == 2
MaxDevices == 1
NumEntities == 2
MaxCalls == 3

\* ------------------------------------------------------- python values
None == [py |-> "None"]
PyStr(s) == [py |-> "str", v |-> s]
PyDict(d) == [py |-> "dict", v |-> d]
PyList(n) == [py |-> "list", items |-> [i \in 1..n |-> i]]

EmptyDict == [k \in {} |-> None]

\* d[k] = v
DictSet(d, k, v) == [x \in (DOMAIN d) \cup {k} |-> IF x = k THEN v ELSE d[x]]

\* d.get(k, default)
DictGet(d, k, default) == IF k \in DOMAIN d THEN d[k] ELSE default

\* d.pop(k) for a key that is present
DictPop(d, k) == [x \in (DOMAIN d) \ {k} |-> d[x]]

\* bool(v) for the values devices.get() can give: None or a list
Truthy(v) == v.py = "list" /\ Len(v.items) > 0

\* ------------------------------------------------------------ constants
DOMAIN_ == "hive"
CONF_SCAN_INTERVAL == "scan_interval"
CONF_USERNAME == "username"
CONF_PASSWORD == "password"
DEFAULT_SCAN_INTERVAL == 120

\* PLATFORM_LOOKUP and PLATFORMS are defined in const.py.  The table is
\* represented by two rows of the shape the loop of async_setup_entry reads
\* (host platform, vendor type), in dict order, with keys and values kept
\* apart so that using one for the other shows.
PLATFORM_LOOKUP ==
    << <<"climate", "hive_climate">>,
       <<"water_heater", "hive_water_heater">> >>

PLATFORMS == {PLATFORM_LOOKUP[i][1] : i \in 1..Len(PLATFORM_LOOKUP)}

\* vendor types startSession can report: those of the table and one more
HiveTypes == {PLATFORM_LOOKUP[i][2] : i \in 1..Len(PLATFORM_LOOKUP)} \cup {"parent"}

\* ----------------------------------------------------------- exceptions
\* class -> its bases, nearest first (isinstance follows this chain)
ExcBases ==
    [ HTTPException |-> <<"HTTPException", "Exception">>,
      HTTPNotFound |-> <<"HTTPNotFound", "HTTPException", "Exception">>,
      HiveReauthRequired |-> <<"HiveReauthRequired", "Exception">>,
      HiveApiError |-> <<"HiveApiError", "Exception">>,
      CancelledError |-> <<"CancelledError", "BaseException">> ]

ExcTypes == DOMAIN ExcBases

IsInstance(exc, cls) == \E i \in 1..Len(ExcBases[exc]) : ExcBases[exc][i] = cls

EntryIds == 1..NumEntries
EntityIds == 1..NumEntities

VARIABLES
    hass_data,        \* hass.data: dict, key DOMAIN -> {entry_id -> Hive client}
    hive_objs,        \* number of Hive(websession) objects constructed so far
    entries,          \* config entries the host holds for DOMAIN
    entry_data,       \* entry.data per entry
    entry_options,    \* entry.options per entry
    entry_state,      \* where each entry's setup/unload coroutine stands
    pending_call,     \* per entry: the awaited call in flight and its argument
    import_flow,      \* the import flow task created by async_setup
    last_call,        \* the most recently completed entry point and its outcome
    entities,         \* HiveEntity objects: the outcome of each construction
    ent_state,        \* lifecycle of each entity in the host
    dispatcher,       \* targets connected to the DOMAIN signal
    on_remove,        \* per entity: callbacks registered with async_on_remove
    wrapper_pc,       \* per entity: position of a refresh_system wrapper call
    wrapper_result,   \* per entity: outcome of the last wrapper call
    state_writes,     \* per entity: number of async_write_ha_state calls
    signal_count,     \* number of async_dispatcher_send(hass, DOMAIN) calls
    calls_made        \* number of wrapper calls started

setup_vars == <<hass_data, hive_objs, entries, entry_data, entry_options,
                entry_state, pending_call, import_flow, last_call>>
entity_vars == <<entities>>
signal_vars == <<ent_state, dispatcher, on_remove, wrapper_pc, wrapper_result,
                 state_writes, signal_count, calls_made>>
vars == <<setup_vars, entity_vars, signal_vars>>

\* ------------------------------------------------- async_setup (98-118)
\* The yaml configuration handed to async_setup: without or with a hive
\* section.
YamlConfigs ==
    { EmptyDict,
      [hive |-> [username |-> "user@yaml", password |-> "pw-yaml", scan_interval |-> 2]] }

\* hass.data[DOMAIN] = {}; then, when the yaml has a hive section and the host
\* holds no hive entry, one import flow is scheduled with the yaml's
\* credentials.  Always returns True.
async_setup(data, config, has_entries) ==
    [ hass_data |-> DictSet(data, DOMAIN_, EmptyDict),
      flow |-> IF DOMAIN_ \in DOMAIN config /\ ~has_entries
               THEN [ scheduled |-> TRUE,
                      data |-> [ username |-> config[DOMAIN_][CONF_USERNAME],
                                 password |-> config[DOMAIN_][CONF_PASSWORD] ] ]
               ELSE [ scheduled |-> FALSE, data |-> EmptyDict ],
      returned |-> "True" ]

\* ------------------------------------------- async_setup_entry (121-149)
\* Lines 126-131: the configuration handed to startSession.
HiveConfigDefault2(entry) ==
    DictSet(entry.data, "options",
            DictSet(EmptyDict, CONF_SCAN_INTERVAL,
                    DictGet(entry.options, CONF_SCAN_INTERVAL, 2)))

HiveConfig(entry) ==
    LET hive_config == entry.data
        with_options == DictSet(hive_config, "options", EmptyDict)
    IN  DictSet(with_options, "options",
                DictSet(with_options["options"], CONF_SCAN_INTERVAL,
                        DictGet(entry.options, CONF_SCAN_INTERVAL,
                                DEFAULT_SCAN_INTERVAL)))

\* Line 132: hass.data[DOMAIN][entry.entry_id] = hive
StoreClientAfterSession(data, entry_id, hive) == data

StoreClient(data, entry_id, hive) ==
    DictSet(data, DOMAIN_, DictSet(data[DOMAIN_], entry_id, hive))

\* Lines 142-147: the platforms forwarded, in the order of the loop.
RECURSIVE ForwardLoopIfPresent(_, _)
ForwardLoopIfPresent(devices, i) ==
    IF i > Len(PLATFORM_LOOKUP) THEN <<>>
    ELSE LET ha_type == PLATFORM_LOOKUP[i][1]
             hive_type == PLATFORM_LOOKUP[i][2]
             device_list == DictGet(devices, hive_type, None)
         IN  (IF device_list # None THEN <<ha_type>> ELSE <<>>)
             \o ForwardLoopIfPresent(devices, i + 1)

RECURSIVE ForwardLoop(_, _)
ForwardLoop(devices, i) ==
    IF i > Len(PLATFORM_LOOKUP) THEN <<>>
    ELSE LET ha_type == PLATFORM_LOOKUP[i][1]
             hive_type == PLATFORM_LOOKUP[i][2]
             device_list == DictGet(devices, hive_type, None)
         IN  (IF Truthy(device_list) THEN <<ha_type>> ELSE <<>>)
             \o ForwardLoop(devices, i + 1)

\* Lines 134-149: what the coroutine does once startSession has returned the
\* devices or raised.  outcome: [kind |-> "ok", devices |-> d] or
\* [kind |-> "exc", exc |-> class].
SetupTailSwapped(outcome) ==
    IF outcome.kind = "exc" /\ IsInstance(outcome.exc, "HTTPException")
    THEN [ status |-> "raised", returned |-> "none", exc |-> "ConfigEntryAuthFailed",
           cause |-> outcome.exc, forwards |-> <<>>, devices |-> EmptyDict ]
    ELSE IF outcome.kind = "exc" /\ IsInstance(outcome.exc, "HiveReauthRequired")
    THEN [ status |-> "raised", returned |-> "none", exc |-> "ConfigEntryNotReady",
           cause |-> outcome.exc, forwards |-> <<>>, devices |-> EmptyDict ]
    ELSE IF outcome.kind = "exc"
    THEN [ status |-> "raised", returned |-> "none", exc |-> outcome.exc,
           cause |-> outcome.exc, forwards |-> <<>>, devices |-> EmptyDict ]
    ELSE [ status |-> "returned", returned |-> "True", exc |-> "none",
           cause |-> "none", forwards |-> ForwardLoop(outcome.devices, 1),
           devices |-> outcome.devices ]

SetupTailSwallow(outcome) ==
    IF outcome.kind = "exc" /\ IsInstance(outcome.exc, "HTTPException")
    THEN [ status |-> "raised", returned |-> "none", exc |-> "ConfigEntryNotReady",
           cause |-> outcome.exc, forwards |-> <<>>, devices |-> EmptyDict ]
    ELSE IF outcome.kind = "exc"
    THEN [ status |-> "raised", returned |-> "none", exc |-> "ConfigEntryAuthFailed",
           cause |-> outcome.exc, forwards |-> <<>>, devices |-> EmptyDict ]
    ELSE [ status |-> "returned", returned |-> "True", exc |-> "none",
           cause |-> "none", forwards |-> ForwardLoop(outcome.devices, 1),
           devices |-> outcome.devices ]

SetupTail(outcome) ==
    IF outcome.kind = "exc" /\ IsInstance(outcome.exc, "HTTPException")
    THEN [ status |-> "raised", returned |-> "none", exc |-> "ConfigEntryNotReady",
           cause |-> outcome.exc, forwards |-> <<>>, devices |-> EmptyDict ]
    ELSE IF outcome.kind = "exc" /\ IsInstance(outcome.exc, "HiveReauthRequired")
    THEN [ status |-> "raised", returned |-> "none", exc |-> "ConfigEntryAuthFailed",
           cause |-> outcome.exc, forwards |-> <<>>, devices |-> EmptyDict ]
    ELSE IF outcome.kind = "exc"
    THEN [ status |-> "raised", returned |-> "none", exc |-> outcome.exc,
           cause |-> outcome.exc, forwards |-> <<>>, devices |-> EmptyDict ]
    ELSE [ status |-> "returned", returned |-> "True", exc |-> "none",
           cause |-> "none", forwards |-> ForwardLoop(outcome.devices, 1),
           devices |-> outcome.devices ]

\* ------------------------------------------ async_unload_entry (152-158)
\* Line 154: the awaited call, hass.config_entries.async_unload_platforms(entry, PLATFORMS)
UnloadCall == [ fn |-> "async_unload_platforms", arg |-> PLATFORMS ]

\* What the coroutine does once async_unload_platforms has answered.
UnloadTailAlwaysPops(data, entry_id, unload_ok) ==
    [ hass_data |-> DictSet(data, DOMAIN_, DictPop(data[DOMAIN_], entry_id)),
      status |-> "returned",
      returned |-> IF unload_ok THEN "True" ELSE "False",
      exc |-> "none" ]

UnloadTail(data, entry_id, unload_ok) ==
    IF unload_ok /\ entry_id \notin DOMAIN data[DOMAIN_]
    THEN [ hass_data |-> data, status |-> "raised", returned |-> "none",
           exc |-> "KeyError" ]
    ELSE [ hass_data |-> IF unload_ok
                         THEN DictSet(data, DOMAIN_, DictPop(data[DOMAIN_], entry_id))
                         ELSE data,
           status |-> "returned",
           returned |-> IF unload_ok THEN "True" ELSE "False",
           exc |-> "none" ]

\* ------------------------------------------------ the entry points' steps
NoCall ==
    [ op |-> "none", status |-> "none", returned |-> "none",
      exc |-> "none", cause |-> "none", forwards |-> <<>>, devices |-> EmptyDict,
      helper |-> "none" ]

NoFlow == [ scheduled |-> FALSE, data |-> EmptyDict ]

NoPending == [ fn |-> "none", arg |-> EmptyDict ]

\* entry.options: entries with an odd id carry a scan interval, the others
\* carry no option
EntryOptions(e) == IF e % 2 = 1 THEN [scan_interval |-> 30] ELSE EmptyDict

EntryData(e) == [ username |-> "user", password |-> "pw", tokens |-> e ]

\* device lists of 0..MaxDevices devices
DeviceLists == { PyList(n) : n \in 0..MaxDevices }

\* what startSession can return: any of the vendor types may be missing,
\* empty or hold devices
DeviceResults == UNION { [T -> DeviceLists] : T \in SUBSET HiveTypes }

Entry(e) == [ entry_id |-> e, data |-> entry_data[e], options |-> entry_options[e] ]

InitSetup ==
    /\ hass_data = EmptyDict
    /\ hive_objs = 0
    /\ entries \in { {}, EntryIds }
    /\ entry_data = [e \in EntryIds |-> EntryData(e)]
    /\ entry_options = [e \in EntryIds |-> EntryOptions(e)]
    /\ entry_state = [e \in EntryIds |-> "not_loaded"]
    /\ pending_call = [e \in EntryIds |-> NoPending]
    /\ import_flow = NoFlow
    /\ last_call = NoCall

\* The host sets the component up once, before any of its entries.
AsyncSetup(config) ==
    /\ DOMAIN_ \notin DOMAIN hass_data
    /\ LET r == async_setup(hass_data, config, entries # {})
       IN  /\ hass_data' = r.hass_data
           /\ import_flow' = r.flow
           /\ last_call' = [NoCall EXCEPT !.op = "async_setup", !.status = "returned",
                                          !.returned = r.returned]
    /\ UNCHANGED <<hive_objs, entries, entry_data, entry_options, entry_state,
                   pending_call, entity_vars, signal_vars>>

\* The import flow scheduled by async_setup creates the first entry from the
\* yaml credentials (config_flow.py, outside this file).
ImportFlowCreatesEntry ==
    /\ import_flow.scheduled
    /\ entries = {}
    /\ entries' = {1}
    /\ entry_data' = [entry_data EXCEPT ![1] = import_flow.data]
    /\ import_flow' = NoFlow
    /\ UNCHANGED <<hass_data, hive_objs, entry_options, entry_state, pending_call,
                   last_call, entity_vars, signal_vars>>

\* Lines 124-135, up to the await of startSession.
AsyncSetupEntryBegin(e) ==
    /\ e \in entries
    /\ DOMAIN_ \in DOMAIN hass_data
    /\ entry_state[e] \in {"not_loaded", "setup_retry", "setup_error"}
    /\ hive_objs < MaxSetups
    /\ LET hive == [client |-> hive_objs + 1]
       IN  /\ hive_objs' = hive_objs + 1
           /\ hass_data' = StoreClient(hass_data, e, hive)
           /\ pending_call' = [pending_call EXCEPT ![e] =
                                 [ fn |-> "startSession", arg |-> HiveConfig(Entry(e)) ]]
    /\ entry_state' = [entry_state EXCEPT ![e] = "setup_in_progress"]
    /\ UNCHANGED <<entries, entry_data, entry_options, import_flow, last_call,
                   entity_vars, signal_vars>>

SetupFinish(e, outcome) ==
    /\ entry_state[e] = "setup_in_progress"
    /\ LET r == SetupTail(outcome)
       IN  /\ last_call' = [ op |-> "async_setup_entry",
                             status |-> r.status, returned |-> r.returned,
                             exc |-> r.exc, cause |-> r.cause,
                             forwards |-> r.forwards, devices |-> r.devices,
                             helper |-> "none" ]
           /\ entry_state' = [entry_state EXCEPT ![e] =
                                IF r.status = "returned" THEN "loaded"
                                ELSE IF r.exc = "ConfigEntryNotReady" THEN "setup_retry"
                                ELSE "setup_error"]
    /\ pending_call' = [pending_call EXCEPT ![e] = NoPending]
    /\ UNCHANGED <<hass_data, hive_objs, entries, entry_data, entry_options,
                   import_flow, entity_vars, signal_vars>>

\* Lines 135, 142-149: startSession returns the devices.
StartSessionReturns(e, devices) ==
    SetupFinish(e, [kind |-> "ok", devices |-> devices, exc |-> "none"])

\* Lines 135-140: startSession raises.
StartSessionRaises(e, exc) ==
    SetupFinish(e, [kind |-> "exc", devices |-> EmptyDict, exc |-> exc])

\* Line 154, up to the await of async_unload_platforms.
AsyncUnloadEntryBegin(e) ==
    /\ entry_state[e] = "loaded"
    /\ entry_state' = [entry_state EXCEPT ![e] = "unloading"]
    /\ pending_call' = [pending_call EXCEPT ![e] = UnloadCall]
    /\ UNCHANGED <<hass_data, hive_objs, entries, entry_data, entry_options,
                   import_flow, last_call, entity_vars, signal_vars>>

\* Lines 154-158: async_unload_platforms answers unload_ok.
UnloadPlatformsAnswers(e, unload_ok) ==
    /\ entry_state[e] = "unloading"
    /\ LET r == UnloadTail(hass_data, e, unload_ok)
       IN  /\ hass_data' = r.hass_data
           /\ last_call' = [NoCall EXCEPT !.op = "async_unload_entry",
                                          !.status = r.status, !.returned = r.returned,
                                          !.exc = r.exc,
                                          !.helper = IF unload_ok THEN "True" ELSE "False"]
           /\ entry_state' = [entry_state EXCEPT ![e] =
                                IF r.status = "returned" /\ unload_ok
                                THEN "not_loaded" ELSE "failed_unload"]
    /\ pending_call' = [pending_call EXCEPT ![e] = NoPending]
    /\ UNCHANGED <<hive_objs, entries, entry_data, entry_options, import_flow,
                   entity_vars, signal_vars>>

\* ------------------------------------------------------ DEVICETYPE (33-77)
DEVICETYPE ==
    [ contactsensor |-> [device_class |-> "BinarySensorDeviceClass.OPENING"],
      motionsensor |-> [device_class |-> "BinarySensorDeviceClass.MOTION"],
      Connectivity |-> [device_class |-> "BinarySensorDeviceClass.CONNECTIVITY"],
      SMOKE_CO |-> [device_class |-> "BinarySensorDeviceClass.SMOKE"],
      DOG_BARK |-> [device_class |-> "BinarySensorDeviceClass.SOUND"],
      GLASS_BREAK |-> [device_class |-> "BinarySensorDeviceClass.SOUND"],
      Heating_Current_Temperature |->
          [ device_class |-> "SensorDeviceClass.TEMPERATURE",
            state_class |-> "SensorStateClass.MEASUREMENT",
            unit |-> "TEMP_CELSIUS" ],
      Heating_Target_Temperature |->
          [ device_class |-> "SensorDeviceClass.TEMPERATURE",
            state_class |-> "SensorStateClass.MEASUREMENT",
            unit |-> "TEMP_CELSIUS" ],
      Heating_State |-> [icon |-> "mdi:radiator"],
      Heating_Mode |-> [icon |-> "mdi:radiator"],
      Heating_Boost |-> [icon |-> "mdi:radiator"],
      Hotwater_State |-> [icon |-> "mdi:water-pump"],
      Hotwater_Mode |-> [icon |-> "mdi:water-pump"],
      Hotwater_Boost |-> [icon |-> "mdi:water-pump"],
      Heating_Heat_On_Demand |-> EmptyDict,
      Mode |-> [icon |-> "mdi:eye"],
      Availability |-> [icon |-> "mdi:check-circle"],
      warmwhitelight |-> EmptyDict,
      tuneablelight |-> EmptyDict,
      colourtunablelight |-> EmptyDict,
      activeplug |-> EmptyDict,
      trvcontrol |-> EmptyDict,
      heating |-> EmptyDict,
      siren |-> EmptyDict,
      Battery |->
          [ device_class |-> "SensorDeviceClass.BATTERY",
            state_class |-> "SensorStateClass.MEASUREMENT" ],
      Power |->
          [ device_class |-> "SensorDeviceClass.ENERGY",
            state_class |-> "SensorStateClass.MEASUREMENT",
            unit |-> "POWER_WATT" ] ]

\* record.get(field): the field as a str, or None
FieldGet(record, field) ==
    IF field \in DOMAIN record THEN PyStr(record[field]) ELSE None

\* ------------------------------------------- HiveEntity.__init__ (175-197)
NoEntity ==
    [ status |-> "none", exc |-> "none", key |-> "none", device |-> EmptyDict,
      name |-> "", unique_id |-> "", entity_category |-> None,
      device_class |-> None, state_class |-> None, native_unit |-> None,
      device_info |-> EmptyDict, attributes |-> EmptyDict ]

KeyError(device, key) ==
    [NoEntity EXCEPT !.status = "raised", !.exc = "KeyError", !.key = key,
                     !.device = device]

\* Line 180: f'{hiveID}-{hiveType}'
UniqueId(hiveID, hiveType) == hiveID \o "-" \o hiveType

\* Line 182: DEVICETYPE.get(self.device["hiveType"])
DeviceClassOf(hiveType) ==
    IF hiveType \in DOMAIN DEVICETYPE THEN PyDict(DEVICETYPE[hiveType]) ELSE None

\* Lines 183-185: DEVICETYPE[hiveType].get("state_class"), hiveType in the table
StateClassOf(hiveType) == FieldGet(DEVICETYPE[hiveType], "state_class")

\* Lines 186-188: DEVICETYPE[hiveType].get("unit"), hiveType in the table
NativeUnitOf(hiveType) == FieldGet(DEVICETYPE[hiveType], "unit")

\* Lines 189-196
DeviceInfoOf(device) ==
    [ identifiers |-> { <<DOMAIN_, device["device_id"]>> },
      model |-> device["deviceData"]["model"],
      manufacturer |-> device["deviceData"]["manufacturer"],
      name |-> device["device_name"],
      sw_version |-> device["deviceData"]["version"],
      via_device |-> <<DOMAIN_, device["parentDevice"]>> ]

\* The subscripts of __init__ on the device dictionary, in the order it
\* reaches them (lines 179, 180, 180, 190, 191, 191, 192, 193, 194, 195): a
\* path of one key is device[key], a path of two is device[key][key].  The
\* first one whose last key is missing raises KeyError of that key.
SubscriptOrder ==
    << <<"haName">>, <<"hiveID">>, <<"hiveType">>, <<"device_id">>,
       <<"deviceData">>, <<"deviceData", "model">>,
       <<"deviceData", "manufacturer">>, <<"device_name">>,
       <<"deviceData", "version">>, <<"parentDevice">> >>

\* the subscripts before the table lookup of line 183
SubscriptsBeforeTable == 3

\* does the subscript of this path succeed on the device?
HasPath(device, path) ==
    /\ path[1] \in DOMAIN device
    /\ Len(path) = 2 => path[2] \in DOMAIN device[path[1]]

MissingKeys(device) ==
    { i \in 1..Len(SubscriptOrder) : ~HasPath(device, SubscriptOrder[i]) }

\* the key of the KeyError: the last key of the first failing subscript
FirstMissing(device) ==
    LET first == CHOOSE i \in MissingKeys(device) :
                     \A j \in MissingKeys(device) : i <= j
        path == SubscriptOrder[first]
    IN  IF path[1] \in DOMAIN device THEN path[Len(path)] ELSE path[1]

HiveEntityInit(hive, device) ==
    IF \E i \in MissingKeys(device) : i <= SubscriptsBeforeTable
    THEN KeyError(device, FirstMissing(device))
    ELSE IF device["hiveType"] \notin DOMAIN DEVICETYPE
    THEN KeyError(device, device["hiveType"])
    ELSE IF MissingKeys(device) # {}
    THEN KeyError(device, FirstMissing(device))
    ELSE [ status |-> "constructed", exc |-> "none", key |-> "none",
           device |-> device,
           name |-> device["haName"],
           unique_id |-> UniqueId(device["hiveID"], device["hiveType"]),
           entity_category |-> DictGet(device, "category", None),
           device_class |-> DeviceClassOf(device["hiveType"]),
           state_class |-> StateClassOf(device["hiveType"]),
           native_unit |-> NativeUnitOf(device["hiveType"]),
           device_info |-> DeviceInfoOf(device),
           attributes |-> EmptyDict ]

\* ------------------------------------------------- device dictionaries
HiveIds == {"a", "a-b"}

\* the types of the table and two the table does not know
DeviceHiveTypes == (DOMAIN DEVICETYPE) \cup {"hotwater", "b-Power"}

FullDevice(hiveID, hiveType) ==
    [ haName |-> "name of " \o hiveID,
      hiveID |-> hiveID,
      hiveType |-> hiveType,
      device_id |-> "device " \o hiveID,
      device_name |-> "device name " \o hiveID,
      parentDevice |-> "parent of " \o hiveID,
      deviceData |-> [ model |-> "model " \o hiveType,
                       manufacturer |-> "Hive",
                       version |-> "1.0-" \o hiveID ] ]

Without(device, key) == [k \in (DOMAIN device) \ {key} |-> device[k]]

\* the device without the key a subscript path ends in
WithoutPath(device, path) ==
    IF Len(path) = 1 THEN Without(device, path[1])
    ELSE DictSet(device, path[1], Without(device[path[1]], path[2]))

FullDevices == { FullDevice(i, t) : i \in HiveIds, t \in DeviceHiveTypes }

DeviceDicts ==
    FullDevices
    \cup { DictSet(FullDevice("a", "Power"), "category", PyStr("diagnostic")) }
    \cup { WithoutPath(FullDevice("a", t), SubscriptOrder[i]) :
             i \in 1..Len(SubscriptOrder), t \in {"Power", "hotwater"} }
    \cup { DictSet(FullDevice("a", "Power"), "deviceData", EmptyDict),
           WithoutPath(WithoutPath(FullDevice("a", "Power"), <<"deviceData", "version">>),
                       <<"device_name">>) }

HasRequiredKeys(device) == MissingKeys(device) = {}

Slots == {"first", "second"}

InitEntity == entities = [s \in Slots |-> NoEntity]

\* A platform constructs an entity from a vendor device dictionary.
ConstructEntity(s, device) ==
    /\ entities[s].status = "none"
    /\ entities' = [entities EXCEPT ![s] = HiveEntityInit("hive", device)]
    /\ UNCHANGED <<setup_vars, signal_vars>>

\* -------------------------------------------- dispatcher and entity host
\* helpers/dispatcher.py and helpers/entity.py belong to the host: connect
\* adds a target and hands back the callable that takes it out again, send
\* calls every connected target, removing an entity runs its on-remove
\* callbacks.
async_dispatcher_connect(targets, target) == targets \cup {target}

\* async_dispatcher_send(hass, DOMAIN): each target is an entity's
\* async_write_ha_state
async_dispatcher_send(targets, writes) ==
    [i \in DOMAIN writes |-> IF i \in targets THEN writes[i] + 1 ELSE writes[i]]

RunOnRemove(targets, callbacks) == targets \ callbacks

\* ----------------------------- HiveEntity.async_added_to_hass (199-203)
\* Connects async_write_ha_state to the DOMAIN signal and registers the
\* disconnect callable with async_on_remove.
AddedToHassKeepsListener(targets, callbacks, i) ==
    [ dispatcher |-> async_dispatcher_connect(targets, i),
      on_remove |-> callbacks ]

async_added_to_hass(targets, callbacks, i) ==
    [ dispatcher |-> async_dispatcher_connect(targets, i),
      on_remove |-> callbacks \cup {i} ]

\* ------------------------------------------------ refresh_system (161-169)
\* What wrapper does once the wrapped coroutine has returned or raised.
WrapperTailAlwaysSends(outcome) ==
    IF outcome.kind = "exc"
    THEN [ status |-> "raised", exc |-> outcome.exc, send |-> TRUE ]
    ELSE [ status |-> "returned", exc |-> "none", send |-> TRUE ]

WrapperTail(outcome) ==
    IF outcome.kind = "exc"
    THEN [ status |-> "raised", exc |-> outcome.exc, send |-> FALSE ]
    ELSE [ status |-> "returned", exc |-> "none", send |-> TRUE ]

NoWrapperResult == [ status |-> "none", exc |-> "none", sent |-> 0 ]

InitSignal ==
    /\ ent_state = [i \in EntityIds |-> "constructed"]
    /\ dispatcher = {}
    /\ on_remove = [i \in EntityIds |-> {}]
    /\ wrapper_pc = [i \in EntityIds |-> "idle"]
    /\ wrapper_result = [i \in EntityIds |-> NoWrapperResult]
    /\ state_writes = [i \in EntityIds |-> 0]
    /\ signal_count = 0
    /\ calls_made = 0

\* The host adds the entity and calls async_added_to_hass.
EntityAdded(i) ==
    /\ ent_state[i] = "constructed"
    /\ LET r == async_added_to_hass(dispatcher, on_remove[i], i)
       IN  /\ dispatcher' = r.dispatcher
           /\ on_remove' = [on_remove EXCEPT ![i] = r.on_remove]
    /\ ent_state' = [ent_state EXCEPT ![i] = "added"]
    /\ UNCHANGED <<wrapper_pc, wrapper_result, state_writes, signal_count,
                   calls_made, setup_vars, entity_vars>>

\* The host removes the entity: its on-remove callbacks run.
EntityRemoved(i) ==
    /\ ent_state[i] = "added"
    /\ dispatcher' = RunOnRemove(dispatcher, on_remove[i])
    /\ on_remove' = [on_remove EXCEPT ![i] = {}]
    /\ ent_state' = [ent_state EXCEPT ![i] = "removed"]
    /\ UNCHANGED <<wrapper_pc, wrapper_result, state_writes, signal_count,
                   calls_made, setup_vars, entity_vars>>

\* Line 166, up to the await: a wrapped method of an added entity is called.
WrapperCalled(i) ==
    /\ ent_state[i] = "added"
    /\ wrapper_pc[i] = "idle"
    /\ calls_made < MaxCalls
    /\ calls_made' = calls_made + 1
    /\ wrapper_pc' = [wrapper_pc EXCEPT ![i] = "in_func"]
    /\ wrapper_result' = [wrapper_result EXCEPT ![i] = NoWrapperResult]
    /\ UNCHANGED <<ent_state, dispatcher, on_remove, state_writes, signal_count,
                   setup_vars, entity_vars>>

WrapperFinish(i, outcome) ==
    /\ wrapper_pc[i] = "in_func"
    /\ LET r == WrapperTail(outcome)
       IN  /\ wrapper_result' = [wrapper_result EXCEPT ![i] =
                                   [ status |-> r.status, exc |-> r.exc,
                                     sent |-> IF r.send THEN 1 ELSE 0 ]]
           /\ signal_count' = IF r.send THEN signal_count + 1 ELSE signal_count
           /\ state_writes' = IF r.send
                              THEN async_dispatcher_send(dispatcher, state_writes)
                              ELSE state_writes
    /\ wrapper_pc' = [wrapper_pc EXCEPT ![i] = "idle"]
    /\ UNCHANGED <<ent_state, dispatcher, on_remove, calls_made, setup_vars,
                   entity_vars>>

\* Lines 166-167: the wrapped coroutine returns, the signal is sent.
FuncReturns(i) == WrapperFinish(i, [kind |-> "ok", exc |-> "none"])

\* Line 166: the wrapped coroutine raises.
FuncRaises(i, exc) == WrapperFinish(i, [kind |-> "exc", exc |-> exc])

\* ------------------------------------------------------- specifications
Init == InitSetup /\ InitEntity /\ InitSignal

Next ==
    \/ \E config \in YamlConfigs : AsyncSetup(config)
    \/ ImportFlowCreatesEntry
    \/ \E e \in EntryIds : AsyncSetupEntryBegin(e)
    \/ \E e \in EntryIds : \E devices \in DeviceResults : StartSessionReturns(e, devices)
    \/ \E e \in EntryIds : \E exc \in ExcTypes : StartSessionRaises(e, exc)
    \/ \E e \in EntryIds : AsyncUnloadEntryBegin(e)
    \/ \E e \in EntryIds : \E unload_ok \in BOOLEAN : UnloadPlatformsAnswers(e, unload_ok)

Spec == Init /\ [][Next]_vars

\* the same, with the host holding its entries
InitIdle == InitSetup /\ entries = EntryIds /\ InitEntity /\ InitSignal

NextEntity == \E s \in Slots : \E device \in DeviceDicts : ConstructEntity(s, device)

SpecEntity == InitIdle /\ [][NextEntity]_vars

NextSignal ==
    \/ \E i \in EntityIds : EntityAdded(i)
    \/ \E i \in EntityIds : EntityRemoved(i)
    \/ \E i \in EntityIds : WrapperCalled(i)
    \/ \E i \in EntityIds : FuncReturns(i)
    \/ \E i \in EntityIds : \E exc \in ExcTypes : FuncRaises(i, exc)

SpecSignal == InitIdle /\ [][NextSignal]_vars

\* ================================================================ claims
SetupCallDone == last_call.op = "async_setup_entry"

\* the entry ids held in hass.data[DOMAIN]
ClientKeys == IF DOMAIN_ \in DOMAIN hass_data THEN DOMAIN hass_data[DOMAIN_] ELSE {}

\* C1: when startSession raises an HTTPException, async_setup_entry raises
\* ConfigEntryNotReady; when it raises HiveReauthRequired, async_setup_entry
\* raises ConfigEntryAuthFailed; in both cases it does not return True and
\* forwards no platform setup.
C1_KnownExceptionsMapped ==
    (SetupCallDone /\ last_call.cause # "none") =>
        /\ IsInstance(last_call.cause, "HTTPException") =>
              /\ last_call.status = "raised"
              /\ last_call.exc = "ConfigEntryNotReady"
              /\ last_call.returned # "True"
              /\ last_call.forwards = <<>>
        /\ IsInstance(last_call.cause, "HiveReauthRequired") =>
              /\ last_call.status = "raised"
              /\ last_call.exc = "ConfigEntryAuthFailed"
              /\ last_call.returned # "True"
              /\ last_call.forwards = <<>>

\* a setup that ended in ConfigEntryAuthFailed because startSession raised
\* HiveReauthRequired, after which the host holds the entry in setup_error
C1_Witness ==
    /\ SetupCallDone
    /\ last_call.cause = "HiveReauthRequired"
    /\ last_call.exc = "ConfigEntryAuthFailed"
    /\ \E e \in EntryIds : entry_state[e] = "setup_error"

\* C2: an exception of startSession that is neither an HTTPException nor a
\* HiveReauthRequired leaves async_setup_entry as it is: not turned into
\* ConfigEntryNotReady or ConfigEntryAuthFailed, no True returned, no
\* platform setup forwarded.
C2_OtherExceptionsPropagate ==
    ( /\ SetupCallDone
      /\ last_call.cause # "none"
      /\ ~IsInstance(last_call.cause, "HTTPException")
      /\ ~IsInstance(last_call.cause, "HiveReauthRequired") ) =>
        /\ last_call.status = "raised"
        /\ last_call.exc = last_call.cause
        /\ last_call.exc \notin {"ConfigEntryNotReady", "ConfigEntryAuthFailed"}
        /\ last_call.returned # "True"
        /\ last_call.forwards = <<>>

\* a setup that ended in the vendor's HiveApiError, unchanged
C2_Witness ==
    /\ SetupCallDone
    /\ last_call.cause = "HiveApiError"
    /\ last_call.exc = "HiveApiError"
    /\ last_call.status = "raised"

\* the configuration the claim describes for an entry: the entry's data, and
\* under "options" a record of the scan interval alone, 120 unless the
\* entry's options give one
IsClaimedConfig(config, e) ==
    /\ DOMAIN config = (DOMAIN entry_data[e]) \cup {"options"}
    /\ \A k \in (DOMAIN entry_data[e]) \ {"options"} : config[k] = entry_data[e][k]
    /\ DOMAIN config["options"] = {"scan_interval"}
    /\ config["options"]["scan_interval"] =
          IF "scan_interval" \in DOMAIN entry_options[e]
          THEN entry_options[e]["scan_interval"] ELSE 120

SetupStepOf(e) ==
    \/ entry_state[e] # "setup_in_progress" /\ entry_state'[e] = "setup_in_progress"
    \/ entry_state[e] = "setup_in_progress" /\ entry_state'[e] # "setup_in_progress"

\* C8: the configuration handed to startSession is the entry's data plus an
\* options record of the scan interval alone (the entry option's value, 120
\* when the entry has none), and no step of a setup changes the entry's
\* data or options.
C8_SessionConfig ==
    /\ [](\A e \in EntryIds :
            entry_state[e] = "setup_in_progress" =>
                /\ pending_call[e].fn = "startSession"
                /\ IsClaimedConfig(pending_call[e].arg, e))
    /\ [][\A e \in EntryIds :
            SetupStepOf(e) => /\ entry_data'[e] = entry_data[e]
                              /\ entry_options'[e] = entry_options[e]]_vars

\* two setups awaiting startSession at once, one for an entry with the scan
\* interval option and one for an entry without it
C8_Witness ==
    \E e1, e2 \in EntryIds :
        /\ entry_state[e1] = "setup_in_progress"
        /\ entry_state[e2] = "setup_in_progress"
        /\ "scan_interval" \in DOMAIN entry_options[e1]
        /\ "scan_interval" \notin DOMAIN entry_options[e2]

\* the host platforms whose vendor type has a non-empty device list
PlatformsWithDevices(devices) ==
    { PLATFORM_LOOKUP[i][1] :
        i \in { j \in 1..Len(PLATFORM_LOOKUP) :
                  /\ PLATFORM_LOOKUP[j][2] \in DOMAIN devices
                  /\ Len(devices[PLATFORM_LOOKUP[j][2]].items) > 0 } }

SeqRange(q) == { q[i] : i \in 1..Len(q) }

\* C9: a setup whose startSession succeeded returns True and forwards the
\* platform setup of exactly the PLATFORM_LOOKUP platforms whose vendor type
\* has a non-empty device list, each at most once.
C9_ForwardsPlatformsWithDevices ==
    (SetupCallDone /\ last_call.cause = "none") =>
        /\ last_call.status = "returned"
        /\ last_call.returned = "True"
        /\ SeqRange(last_call.forwards) = PlatformsWithDevices(last_call.devices)
        /\ Len(last_call.forwards) = Cardinality(SeqRange(last_call.forwards))

\* a successful setup where one platform has devices, one has an empty list
\* and a vendor type outside PLATFORM_LOOKUP has devices too
C9_Witness ==
    /\ SetupCallDone
    /\ last_call.status = "returned"
    /\ last_call.forwards = <<"climate">>
    /\ "hive_water_heater" \in DOMAIN last_call.devices
    /\ Len(last_call.devices["hive_water_heater"].items) = 0
    /\ "parent" \in DOMAIN last_call.devices
    /\ Len(last_call.devices["parent"].items) > 0

UnloadStepOf(e) == entry_state[e] = "unloading" /\ entry_state'[e] # "unloading"

\* C4: async_unload_entry awaits the bulk unload over PLATFORMS, returns
\* exactly its result, takes the entry's client out of hass.data[DOMAIN]
\* when the result is true and leaves the dictionary as it is when it is
\* false; the clients of the other entries stay.
C4_UnloadFollowsHelper ==
    /\ [](\A e \in EntryIds :
            entry_state[e] = "unloading" =>
                pending_call[e] = [fn |-> "async_unload_platforms", arg |-> PLATFORMS])
    /\ [][\A e \in EntryIds :
            UnloadStepOf(e) =>
                /\ last_call'.op = "async_unload_entry"
                /\ last_call'.status = "returned"
                /\ last_call'.returned = last_call'.helper
                /\ last_call'.helper = "True" =>
                      /\ e \notin DOMAIN hass_data'[DOMAIN_]
                      /\ hass_data'[DOMAIN_] = DictPop(hass_data[DOMAIN_], e)
                /\ last_call'.helper = "False" => hass_data' = hass_data]_vars

\* a failed unload of one entry after which both entries' clients are
\* still held
C4_Witness ==
    /\ last_call.op = "async_unload_entry"
    /\ last_call.returned = "False"
    /\ \E e \in EntryIds : entry_state[e] = "failed_unload" /\ e \in ClientKeys
    /\ Cardinality(ClientKeys) = 2

\* C10: the client is stored before startSession is awaited, so from the
\* start of a setup attempt on, however it ends, the entry id is a key of
\* hass.data[DOMAIN]; a key leaves the dictionary only by a successful
\* async_unload_entry of that entry or by async_setup.
C10_ClientStoredFromSetupOn ==
    /\ [](\A e \in EntryIds : entry_state[e] # "not_loaded" => e \in ClientKeys)
    /\ [][\A e \in EntryIds :
            (e \in ClientKeys /\ e \notin ClientKeys') =>
                \/ /\ UnloadStepOf(e)
                   /\ last_call'.returned = "True"
                \/ /\ last_call'.op = "async_setup"
                   /\ ClientKeys' = {}]_vars

\* an entry whose setup raised ConfigEntryNotReady and whose client is still
\* held, next to an entry whose client a successful unload has taken out
C10_Witness ==
    \E e1, e2 \in EntryIds :
        /\ entry_state[e1] = "setup_retry"
        /\ e1 \in ClientKeys
        /\ entry_state[e2] = "not_loaded"
        /\ e2 \notin ClientKeys
        /\ last_call.op = "async_unload_entry"
        /\ last_call.returned = "True"

Attempted(s) == entities[s].status # "none"

\* C3: every device dictionary that has the required keys gives an entity
\* with unique id '<hiveID>-<hiveType>', name haName and the device-info
\* record of the dictionary's fields; two such devices share a unique id
\* only when they share hiveID and hiveType.
C3_EntityOfEveryDevice ==
    /\ \A s \in Slots :
          (Attempted(s) /\ HasRequiredKeys(entities[s].device)) =>
              LET d == entities[s].device
                  info == entities[s].device_info
              IN  /\ entities[s].status = "constructed"
                  /\ entities[s].unique_id = d["hiveID"] \o "-" \o d["hiveType"]
                  /\ entities[s].name = d["haName"]
                  /\ info = [ identifiers |-> { <<"hive", d["device_id"]>> },
                              model |-> d["deviceData"]["model"],
                              manufacturer |-> d["deviceData"]["manufacturer"],
                              name |-> d["device_name"],
                              sw_version |-> d["deviceData"]["version"],
                              via_device |-> <<"hive", d["parentDevice"]>> ]
    /\ \A s, t \in Slots :
          ( /\ entities[s].status = "constructed"
            /\ entities[t].status = "constructed"
            /\ entities[s].unique_id = entities[t].unique_id ) =>
              /\ entities[s].device["hiveID"] = entities[t].device["hiveID"]
              /\ entities[s].device["hiveType"] = entities[t].device["hiveType"]

\* The same for the dictionaries whose hiveType is a key of DEVICETYPE.
EntityOfKnownTypeDevice ==
    /\ \A s \in Slots :
          ( /\ Attempted(s)
            /\ HasRequiredKeys(entities[s].device)
            /\ entities[s].device["hiveType"] \in DOMAIN DEVICETYPE ) =>
              LET d == entities[s].device
                  info == entities[s].device_info
              IN  /\ entities[s].status = "constructed"
                  /\ entities[s].unique_id = d["hiveID"] \o "-" \o d["hiveType"]
                  /\ entities[s].name = d["haName"]
                  /\ info = [ identifiers |-> { <<"hive", d["device_id"]>> },
                              model |-> d["deviceData"]["model"],
                              manufacturer |-> d["deviceData"]["manufacturer"],
                              name |-> d["device_name"],
                              sw_version |-> d["deviceData"]["version"],
                              via_device |-> <<"hive", d["parentDevice"]>> ]
    /\ \A s, t \in Slots :
          ( /\ entities[s].status = "constructed"
            /\ entities[t].status = "constructed"
            /\ entities[s].unique_id = entities[t].unique_id ) =>
              /\ entities[s].device["hiveID"] = entities[t].device["hiveID"]
              /\ entities[s].device["hiveType"] = entities[t].device["hiveType"]

\* C7: for a hiveType of the DEVICETYPE table, the entity's device class,
\* state class and native unit are the 'device_class', 'state_class' and
\* 'unit' fields of the type's record, None where the record has no such
\* field.
C7_MetadataFromTable ==
    \A s \in Slots :
        entities[s].status = "constructed" =>
            LET record == DEVICETYPE[entities[s].device["hiveType"]]
            IN  /\ entities[s].device_class = FieldGet(record, "device_class")
                /\ entities[s].state_class = FieldGet(record, "state_class")
                /\ entities[s].native_unit = FieldGet(record, "unit")

\* The two fields the code does take from the record.
StateClassAndUnitFromTable ==
    \A s \in Slots :
        entities[s].status = "constructed" =>
            LET record == DEVICETYPE[entities[s].device["hiveType"]]
            IN  /\ entities[s].state_class = FieldGet(record, "state_class")
                /\ entities[s].native_unit = FieldGet(record, "unit")

WrapperReturnStep(i) == wrapper_pc[i] = "in_func" /\ wrapper_pc'[i] = "idle"

\* C5: a call of a wrapped method sends the DOMAIN signal exactly once, and
\* only when the wrapped call has completed; when the wrapped call raises,
\* the exception leaves the wrapper and no signal is sent.
C5_SignalOncePerCompletedCall ==
    [][ /\ \A i \in EntityIds :
              WrapperReturnStep(i) =>
                  /\ wrapper_result'[i].status \in {"returned", "raised"}
                  /\ wrapper_result'[i].status = "returned" =>
                        /\ signal_count' = signal_count + 1
                        /\ wrapper_result'[i].sent = 1
                  /\ wrapper_result'[i].status = "raised" =>
                        /\ signal_count' = signal_count
                        /\ wrapper_result'[i].sent = 0
                        /\ wrapper_result'[i].exc \in ExcTypes
        /\ signal_count' # signal_count => \E i \in EntityIds : WrapperReturnStep(i)
      ]_vars

\* one wrapped call has returned and one has raised, and one signal was sent
C5_Witness ==
    \E i, j \in EntityIds :
        /\ wrapper_result[i].status = "returned"
        /\ wrapper_result[j].status = "raised"
        /\ calls_made = 2
        /\ signal_count = 1

\* C6: every send of the DOMAIN signal writes the state of each entity that
\* is added and not removed, and of no other entity; nothing else writes.
C6_SignalWritesAddedEntities ==
    [][ \A i \in EntityIds :
            state_writes'[i] =
                state_writes[i]
                + (IF signal_count' # signal_count /\ ent_state[i] = "added"
                   THEN 1 ELSE 0)
      ]_vars

\* entity i was added, started a wrapped call and was removed before the
\* call returned: the signal of its own call wrote the other entity's state
\* and not its own
C6_Witness ==
    \E i, j \in EntityIds :
        /\ ent_state[i] = "removed"
        /\ wrapper_result[i].status = "returned"
        /\ state_writes[i] = 0
        /\ ent_state[j] = "added"
        /\ state_writes[j] = 1
        /\ signal_count = 1

====
